---------------------------- MODULE Spec2Model ----------------------------
(***************************************************************************)
(* A model of the VPK codec and patch engine of Dota-Terrain-Mod           *)
(* (src/src/vpk.rs): the Archive Reader (VPK::read), the Archive Writer    *)
(* (create_vpk), the Patch Merger (patch_vpk) and the orchestrator         *)
(* (create_terrain).                                                       *)
(*                                                                         *)
(* Bytes are the integers 0..255, a buffer or a string is a sequence of    *)
(* bytes, a HashMap is a function whose DOMAIN is its key set.  A u32 is   *)
(* kept as its two 16-bit halves [hi, lo] so that the full 32-bit width    *)
(* is represented without leaving the integers the model checker has.      *)
(***************************************************************************)
EXTENDS Integers, Sequences, FiniteSets, TLC

VARIABLES
    platform,         \* the target the program is built for: decides std::path::MAIN_SEPARATOR
    overflow_checks,  \* the build profile: TRUE = integer overflow panics, FALSE = it wraps
    data,             \* VPK.data.get_ref(): the bytes of each archive
    pos,              \* VPK.data.position(): the cursor of each archive
    header,           \* VPK.header
    index,            \* VPK.index: path -> VPKMetadata
    files,            \* VPK.files: path -> payload
    pc,               \* how far VPK::read has got on each archive
    ext,              \* populate_index: the extension of the outer loop
    dir,              \* populate_index: the directory prefix of the middle loop
    mpc,              \* the calling thread of create_terrain
    wpc,              \* the spawned worker of create_terrain
    chan,             \* the mpsc channel (tx, rx)
    out_data,         \* the file set handed to create_vpk
    cv,               \* create_vpk: its cursors and the records it wrote, at return
    out_file          \* the bytes create_vpk returned

vars == <<platform, overflow_checks, data, pos, header, index, files, pc, ext, dir,
          mpc, wpc, chan, out_data, cv, out_file>>

VPKS == {"base", "target"}

HEADER_LENGTH == 28

None == "None"

\* mpsc::channel(): nothing sent, both ends alive
NewChannel == [sent |-> FALSE, tx |-> TRUE, rx |-> TRUE]

\* how a thread dies: the panic! messages of the source, a failed unwrap, and
\* the overflow panic of a build with overflow checks
Panics == {"panic: Invalid VPK", "panic: Error while parsing index.",
           "panic: Error parsing index.", "panic: unwrap", "panic: overflow"}

------------------------------------------------------------------------------
(* Integers of fixed width.                                                *)

W16 == 256 * 256

LE16(n) == <<n % 256, (n \div 256) % 256>>

\* u32::to_le_bytes of a [hi, lo] pair
LE32(v) == LE16(v.lo) \o LE16(v.hi)

\* a small natural as a u32
U32(n) == [hi |-> n \div W16, lo |-> n % W16]

\* u16::from_le_bytes(b[i..i+2]), i counted from 1
U16At(b, i) == b[i] + 256 * b[i + 1]

\* u32::from_le_bytes(b[i..i+4])
U32At(b, i) == [hi |-> U16At(b, i + 2), lo |-> U16At(b, i)]

\* a + b on u32: the wrapped sum and whether it overflowed
Add32(a, b) ==
    LET l == a.lo + b.lo
        h == a.hi + b.hi + (l \div W16)
    IN  [val |-> [hi |-> h % W16, lo |-> l % W16], overflow |-> h >= W16]

\* a u32 as a position or length in a buffer: every buffer of the model is
\* shorter than 2^16 bytes, so a value with a nonzero high half lies beyond it
Beyond == W16
AsNat(v) == IF v.hi = 0 THEN v.lo ELSE Beyond

SIGNATURE == [hi |-> 21930, lo |-> 4660]     \* 0x55aa1234

------------------------------------------------------------------------------
(* Cursor<Vec<u8>>                                                         *)

\* the index of the first NUL after position p, 0 if there is none
NulIdx(d, p) ==
    IF \E i \in (p + 1)..Len(d) : d[i] = 0
    THEN CHOOSE i \in (p + 1)..Len(d) : d[i] = 0 /\ \A j \in (p + 1)..(i - 1) : d[j] # 0
    ELSE 0

\* BufRead::read_until(b'\x00'): the bytes up to and including the delimiter,
\* or up to the end of the buffer
read_until(d, p) ==
    IF p >= Len(d) THEN <<>>
    ELSE IF NulIdx(d, p) = 0 THEN SubSeq(d, p + 1, Len(d))
    ELSE SubSeq(d, p + 1, NulIdx(d, p))

\* CString::from_vec_with_nul: Ok only for bytes ending in their one NUL
from_vec_with_nul_ok(c) == Len(c) > 0 /\ c[Len(c)] = 0

\* CString::to_str: the bytes before the NUL
to_str(c) == SubSeq(c, 1, Len(c) - 1)

\* Read::read_exact(n bytes) succeeds iff n bytes are left at p (n = 0 always does)
read_exact_ok(d, p, n) == n = 0 \/ p + n <= Len(d)

read_exact(d, p, n) == IF n = 0 THEN <<>> ELSE SubSeq(d, p + 1, p + n)

------------------------------------------------------------------------------
(* VPKHeader::new, VPK::read_header                                        *)

VPKHeader_new(hd) ==
    [signature |-> U32At(hd, 1), version |-> U32At(hd, 5), tree_length |-> U32At(hd, 9),
     embed_chunk_length |-> U32At(hd, 13), chunk_hashes_length |-> U32At(hd, 17),
     self_hashes_length |-> U32At(hd, 21), signature_length |-> U32At(hd, 25)]

\* header: None, the Option of VPK::new before read_header has filled it
NoHeader ==
    LET none == [hi |-> -1, lo |-> -1] IN
    [signature |-> none, version |-> none, tree_length |-> none,
     embed_chunk_length |-> none, chunk_hashes_length |-> none,
     self_hashes_length |-> none, signature_length |-> none]

read_header(v) ==
    /\ pc[v] = "unread"
    /\ IF ~read_exact_ok(data[v], pos[v], HEADER_LENGTH)
       THEN /\ pc' = [pc EXCEPT ![v] = "panic: unwrap"]
            /\ UNCHANGED <<header, pos>>
       ELSE IF VPKHeader_new(read_exact(data[v], pos[v], HEADER_LENGTH)).signature = SIGNATURE
       THEN /\ header' = [header EXCEPT ![v] = VPKHeader_new(read_exact(data[v], pos[v], HEADER_LENGTH))]
            \* populate_index starts with set_position(HEADER_LENGTH)
            /\ pos' = [pos EXCEPT ![v] = HEADER_LENGTH]
            /\ pc' = [pc EXCEPT ![v] = "index_ext"]
       ELSE /\ pc' = [pc EXCEPT ![v] = "panic: Invalid VPK"]
            /\ UNCHANGED <<header, pos>>
    /\ UNCHANGED <<platform, overflow_checks, data, index, files, ext, dir,
                   mpc, wpc, chan, out_data, cv, out_file>>

------------------------------------------------------------------------------
(* VPKMetadata::validate                                                   *)

\* HEADER_LENGTH as u32 + header.tree_length
TreeEnd(h) == Add32(U32(HEADER_LENGTH), h.tree_length)

\* a validate that accepts any terminator: what C4 rules out
AnySuffixOk(m) == m.suffix \in 0..65535

\* the suffix check of validate
SuffixOk(m) == m.suffix = 65535

\* whether validate corrects the offset of m
Corrects(m) == m.archive_index = 32767

\* the arithmetic of validate overflows a u32
validate_overflows(m, h) ==
    Corrects(m) /\ (TreeEnd(h).overflow \/ Add32(m.archive_offset, TreeEnd(h).val).overflow)

\* the metadata after validate returned
validate(m, h) ==
    IF Corrects(m)
    THEN [m EXCEPT !.archive_offset = Add32(m.archive_offset, TreeEnd(h).val).val]
    ELSE m

\* how validate ends: on the suffix, on an overflow the build checks, or well
validate_panic(m, h) ==
    IF ~SuffixOk(m) THEN "panic: Error while parsing index."
    ELSE IF overflow_checks /\ validate_overflows(m, h) THEN "panic: overflow"
    ELSE None

------------------------------------------------------------------------------
(* VPK::populate_index, one action for an iteration of each of its loops   *)

\* the tree-bound check at the head of the outer loop
BoundExceeded(h, p) ==
    /\ h.version # U32(0)
    /\ p > AsNat(TreeEnd(h).val)

\* the addition inside the bound test overflows (evaluated only when version > 0)
BoundOverflows(h) == h.version # U32(0) /\ TreeEnd(h).overflow

Slash == 47
Dot == 46
Space == 32

populate_index_ext(v) ==
    /\ pc[v] = "index_ext"
    /\ LET cstr == read_until(data[v], pos[v]) IN
       IF overflow_checks /\ BoundOverflows(header[v])
       THEN /\ pc' = [pc EXCEPT ![v] = "panic: overflow"]
            /\ UNCHANGED <<pos, ext>>
       ELSE IF BoundExceeded(header[v], pos[v])
       THEN /\ pc' = [pc EXCEPT ![v] = "panic: Error parsing index."]
            /\ UNCHANGED <<pos, ext>>
       ELSE /\ pos' = [pos EXCEPT ![v] = pos[v] + Len(cstr)]
            /\ IF ~from_vec_with_nul_ok(cstr)
               THEN pc' = [pc EXCEPT ![v] = "load"] /\ UNCHANGED ext        \* return
               ELSE IF to_str(cstr) = <<>>
               THEN pc' = [pc EXCEPT ![v] = "load"] /\ UNCHANGED ext        \* break
               ELSE /\ ext' = [ext EXCEPT ![v] = to_str(cstr)]
                    /\ pc' = [pc EXCEPT ![v] = "index_dir"]
    /\ UNCHANGED <<platform, overflow_checks, data, header, index, files, dir,
                   mpc, wpc, chan, out_data, cv, out_file>>

\* a middle loop that tries again when the string has no NUL, instead of
\* returning: what C13 rules out
populate_index_dir_retry(v) ==
    /\ pc[v] = "index_dir"
    /\ LET cstr == read_until(data[v], pos[v]) IN
       /\ pos' = [pos EXCEPT ![v] = pos[v] + Len(cstr)]
       /\ IF ~from_vec_with_nul_ok(cstr)
          THEN UNCHANGED <<pc, dir>>                                        \* continue
          ELSE IF to_str(cstr) = <<>>
          THEN pc' = [pc EXCEPT ![v] = "index_ext"] /\ UNCHANGED dir
          ELSE /\ dir' = [dir EXCEPT ![v] = IF to_str(cstr) # <<Space>>
                                            THEN to_str(cstr) \o <<Slash>>
                                            ELSE <<>>]
               /\ pc' = [pc EXCEPT ![v] = "index_name"]
    /\ UNCHANGED <<platform, overflow_checks, data, header, index, files, ext,
                   mpc, wpc, chan, out_data, cv, out_file>>

populate_index_dir(v) ==
    /\ pc[v] = "index_dir"
    /\ LET cstr == read_until(data[v], pos[v]) IN
       /\ pos' = [pos EXCEPT ![v] = pos[v] + Len(cstr)]
       /\ IF ~from_vec_with_nul_ok(cstr)
          THEN pc' = [pc EXCEPT ![v] = "load"] /\ UNCHANGED dir             \* return
          ELSE IF to_str(cstr) = <<>>
          THEN pc' = [pc EXCEPT ![v] = "index_ext"] /\ UNCHANGED dir        \* break
          ELSE /\ dir' = [dir EXCEPT ![v] = IF to_str(cstr) # <<Space>>
                                            THEN to_str(cstr) \o <<Slash>>
                                            ELSE <<>>]
               /\ pc' = [pc EXCEPT ![v] = "index_name"]
    /\ UNCHANGED <<platform, overflow_checks, data, header, index, files, ext,
                   mpc, wpc, chan, out_data, cv, out_file>>

\* VPKMetadata { .. } from the 18 bytes after a name and the preload after them
VPKMetadata(md, preload) ==
    [preload |-> preload,
     crc32 |-> U32At(md, 1),
     preload_length |-> U16At(md, 5),
     archive_index |-> U16At(md, 7),
     archive_offset |-> U32At(md, 9),
     file_length |-> U32At(md, 13),
     suffix |-> U16At(md, 17)]

\* HashMap::insert
Insert(m, k, x) == [p \in DOMAIN m \cup {k} |-> IF p = k THEN x ELSE m[p]]

populate_index_name(v) ==
    /\ pc[v] = "index_name"
    /\ LET cstr == read_until(data[v], pos[v])
           p1 == pos[v] + Len(cstr)
           md == read_exact(data[v], p1, 18)
           plen == U16At(md, 5)
           p2 == p1 + 18
           path == dir[v] \o to_str(cstr) \o <<Dot>> \o ext[v]
           meta == VPKMetadata(md, read_exact(data[v], p2, plen))
       IN
       IF ~from_vec_with_nul_ok(cstr)
       THEN /\ pos' = [pos EXCEPT ![v] = p1]
            /\ pc' = [pc EXCEPT ![v] = "load"]                              \* return
            /\ UNCHANGED index
       ELSE IF to_str(cstr) = <<>>
       THEN /\ pos' = [pos EXCEPT ![v] = p1]
            /\ pc' = [pc EXCEPT ![v] = "index_dir"]                         \* break
            /\ UNCHANGED index
       ELSE IF ~read_exact_ok(data[v], p1, 18) \/ ~read_exact_ok(data[v], p2, plen)
       THEN /\ pc' = [pc EXCEPT ![v] = "panic: unwrap"]
            /\ UNCHANGED <<pos, index>>
       ELSE IF validate_panic(meta, header[v]) # None
       THEN /\ pc' = [pc EXCEPT ![v] = validate_panic(meta, header[v])]
            /\ UNCHANGED <<pos, index>>
       ELSE /\ pos' = [pos EXCEPT ![v] = p2 + plen]
            /\ index' = [index EXCEPT ![v] = Insert(index[v], path, validate(meta, header[v]))]
            /\ UNCHANGED pc
    /\ UNCHANGED <<platform, overflow_checks, data, header, files, ext, dir,
                   mpc, wpc, chan, out_data, cv, out_file>>

------------------------------------------------------------------------------
(* VPK::load_file_data                                                     *)

\* metadata.file_length + u32::from(metadata.preload_length)
LoadLength(m) == Add32(m.file_length, U32(m.preload_length))

\* how the read of one entry ends
LoadPanic(d, m) ==
    IF overflow_checks /\ LoadLength(m).overflow THEN "panic: overflow"
    ELSE IF ~read_exact_ok(d, AsNat(m.archive_offset), AsNat(LoadLength(m).val)) THEN "panic: unwrap"
    ELSE None

\* the bytes one entry loads
LoadBytes(d, m) == read_exact(d, AsNat(m.archive_offset), AsNat(LoadLength(m).val))

load_file_data(v) ==
    /\ pc[v] = "load"
    /\ IF \E p \in DOMAIN index[v] : LoadPanic(data[v], index[v][p]) # None
       THEN \* the first entry that fails, in the map's iteration order, ends the thread
            /\ \E p \in DOMAIN index[v] :
                 /\ LoadPanic(data[v], index[v][p]) # None
                 /\ pc' = [pc EXCEPT ![v] = LoadPanic(data[v], index[v][p])]
            /\ UNCHANGED <<files, pos>>
       ELSE /\ files' = [files EXCEPT ![v] = [p \in DOMAIN index[v] |-> LoadBytes(data[v], index[v][p])]]
            /\ pc' = [pc EXCEPT ![v] = "read"]
            \* the cursor rests after the entry the map's iteration visited last
            /\ IF DOMAIN index[v] = {}
               THEN UNCHANGED pos
               ELSE \E p \in DOMAIN index[v] :
                      pos' = [pos EXCEPT ![v] = AsNat(index[v][p].archive_offset)
                                                + AsNat(LoadLength(index[v][p]).val)]
    /\ UNCHANGED <<platform, overflow_checks, data, header, index, ext, dir,
                   mpc, wpc, chan, out_data, cv, out_file>>

------------------------------------------------------------------------------
(* std::path::Path, on the paths of the model: components separated by one *)
(* separator each, none of them "." or "..", no trailing separator and no  *)
(* Windows prefix.  Unix knows the separator '/', Windows '/' and '\\', and  *)
(* PathBuf::push joins with MAIN_SEPARATOR: '/' on Unix, '\\' on Windows.    *)

Backslash == 92

Platforms == {"unix", "windows"}

is_separator(c) == c = Slash \/ (platform = "windows" /\ c = Backslash)

MAIN_SEPARATOR == IF platform = "windows" THEN Backslash ELSE Slash

Max(S) == CHOOSE x \in S : \A y \in S : y <= x

\* the index of the last separator of s, 0 if it has none
LastSep(s) == Max({0} \cup {i \in 1..Len(s) : is_separator(s[i])})

\* the index of the last '.' of s, 0 if it has none
LastDot(s) == Max({0} \cup {i \in 1..Len(s) : s[i] = Dot})

NoPath == <<-1>>

\* Path::file_name: the last component
file_name(s) ==
    IF LastSep(s) = Len(s) \/ SubSeq(s, LastSep(s) + 1, Len(s)) = <<Dot, Dot>>
    THEN NoPath
    ELSE SubSeq(s, LastSep(s) + 1, Len(s))

\* Path::parent: the path without its last component
parent(s) ==
    IF s = << >> \/ (Len(s) = 1 /\ is_separator(s[1])) THEN NoPath
    ELSE IF LastSep(s) = 1 THEN SubSeq(s, 1, 1)
    ELSE SubSeq(s, 1, LastSep(s) - 1)

\* Path::extension: what follows the last '.' of the file name, if the name
\* has one that is not its first byte
extension(s) ==
    IF file_name(s) = NoPath \/ LastDot(file_name(s)) <= 1 THEN NoPath
    ELSE SubSeq(file_name(s), LastDot(file_name(s)) + 1, Len(file_name(s)))

\* Path::file_stem: the file name without its extension
file_stem(s) ==
    IF file_name(s) = NoPath THEN NoPath
    ELSE IF LastDot(file_name(s)) <= 1 THEN file_name(s)
    ELSE SubSeq(file_name(s), 1, LastDot(file_name(s)) - 1)

\* PathBuf::push of a relative path
push(s, name) ==
    IF s # << >> /\ ~is_separator(s[Len(s)]) THEN s \o <<MAIN_SEPARATOR>> \o name ELSE s \o name

\* Path::with_file_name: pop the file name, push the new one
with_file_name(s, name) ==
    IF file_name(s) = NoPath THEN push(s, name) ELSE push(parent(s), name)

------------------------------------------------------------------------------
(* create_vpk                                                              *)

RECURSIVE Concat(_)
Concat(ss) == IF ss = << >> THEN << >> ELSE Head(ss) \o Concat(Tail(ss))

RECURSIVE SumOver(_, _)
SumOver(S, f) ==
    IF S = {} THEN 0
    ELSE LET x == CHOOSE y \in S : TRUE IN f[x] + SumOver(S \ {x}, f)

Str(s) == s \o <<0>>

\* the (ext, dir, name) a key goes under in the tree
Triple(k) == [ext |-> extension(k), dir |-> parent(k), name |-> file_stem(k)]

\* building the tree panics: one of the three unwraps fails on a key
TreePanics(vpk_data) ==
    \E k \in DOMAIN vpk_data :
        extension(k) = NoPath \/ parent(k) = NoPath \/ file_stem(k) = NoPath

\* a tree length that forgets the NUL after each base name: what C6 rules out
tree_length_without_nul(vpk_data) ==
    LET keys == DOMAIN vpk_data
        exts == {Triple(k).ext : k \in keys}
        dirs == {<<Triple(k).ext, Triple(k).dir>> : k \in keys}
    IN  1 + SumOver(exts, [e \in exts |-> Len(e) + 2])
          + SumOver(dirs, [d \in dirs |-> Len(d[2]) + 2])
          + SumOver(keys, [k \in keys |-> Len(Triple(k).name) + 18])

\* the tree length of lines 274-285
tree_length(vpk_data) ==
    LET keys == DOMAIN vpk_data
        exts == {Triple(k).ext : k \in keys}
        dirs == {<<Triple(k).ext, Triple(k).dir>> : k \in keys}
    IN  1 + SumOver(exts, [e \in exts |-> Len(e) + 2])
          + SumOver(dirs, [d \in dirs |-> Len(d[2]) + 2])
          + SumOver(keys, [k \in keys |-> Len(Triple(k).name) + 19])

\* the key create_vpk looks the payload of a tree entry up under
LookupKey(t) ==
    t.dir \o <<Slash>> \o (IF Len(t.ext) > 0 THEN t.name \o <<Dot>> \o t.ext ELSE t.name)

\* the lookup of a payload panics: the key built from the tree is no key
LookupPanics(vpk_data) ==
    \E k \in DOMAIN vpk_data : LookupKey(Triple(k)) \notin DOMAIN vpk_data

\* all orders of a set
Perms(S) == {q \in [1..Cardinality(S) -> S] : \A i, j \in 1..Cardinality(S) : q[i] = q[j] => i = j}

\* the orders the three nested loops can emit the keys in: the iteration
\* order of each HashMap is arbitrary, but the files of an extension and of a
\* directory within it are emitted together
EmitOrders(vpk_data) ==
    {q \in Perms(DOMAIN vpk_data) :
        \A i, j, l \in 1..Len(q) : (i < j /\ j < l) =>
            /\ Triple(q[i]).ext = Triple(q[l]).ext => Triple(q[j]).ext = Triple(q[i]).ext
            /\ (Triple(q[i]).ext = Triple(q[l]).ext /\ Triple(q[i]).dir = Triple(q[l]).dir)
                  => Triple(q[j]).dir = Triple(q[i]).dir}

\* the CRC-32/CKSUM of a payload and the MD5 of a section: four and sixteen
\* bytes that depend on the bytes digested.  No operation of the program
\* reads them back, so a stand-in of the right width takes their place.
Crc32(b) == LE32(U32(SumOver(DOMAIN b, [i \in DOMAIN b |-> i * b[i]])))
Md5(b) == LET n == Len(b) IN [i \in 1..16 |-> (n + i) % 256]

RECURSIVE SumLen(_, _, _)
\* the payload bytes written before the i-th emitted file
SumLen(vpk_data, q, i) ==
    IF i <= 1 THEN 0
    ELSE SumLen(vpk_data, q, i - 1) + Len(vpk_data[LookupKey(Triple(q[i - 1]))])

\* an offset field counted from the start of the tree: what C9's amendment rules out
archive_offset_from_tree(file_offset, tl) == file_offset - HEADER_LENGTH

\* line 322: the offset field of a file emitted when data_offset is file_offset
archive_offset(file_offset, tl) == file_offset - tl - HEADER_LENGTH

\* the index record of the i-th emitted file, tl being the tree length
EmitRecord(vpk_data, q, i, tl) ==
    LET filedata == vpk_data[LookupKey(Triple(q[i]))]
        file_offset == tl + HEADER_LENGTH + SumLen(vpk_data, q, i)
    IN  [name |-> Triple(q[i]).name,
         crc32 |-> Crc32(filedata),
         preload_length |-> 0,
         archive_index |-> 32767,
         archive_offset |-> archive_offset(file_offset, tl),
         file_length |-> Len(filedata),
         suffix |-> 65535]

RecordBytes(r) ==
    Str(r.name) \o r.crc32 \o LE16(r.preload_length) \o LE16(r.archive_index)
    \o LE32(U32(r.archive_offset)) \o LE32(U32(r.file_length)) \o LE16(r.suffix)

\* what the loops write to tree_cursor before the record of the i-th file
Opening(q, i) ==
    IF i = 1 THEN Str(Triple(q[1]).ext) \o Str(Triple(q[1]).dir)
    ELSE IF Triple(q[i]).ext # Triple(q[i - 1]).ext
    THEN <<0, 0>> \o Str(Triple(q[i]).ext) \o Str(Triple(q[i]).dir)
    ELSE IF Triple(q[i]).dir # Triple(q[i - 1]).dir
    THEN <<0>> \o Str(Triple(q[i]).dir)
    ELSE << >>

\* lines 293-338: the tree section, from the records written
tree_cursor(q, records) ==
    Concat([i \in 1..Len(q) |-> Opening(q, i) \o RecordBytes(records[i])])
    \o (IF Len(q) > 0 THEN <<0, 0, 0>> ELSE <<0>>)

\* line 329: the payloads in the order of their records
data_cursor(vpk_data, q) == Concat([i \in 1..Len(q) |-> vpk_data[LookupKey(Triple(q[i]))]])

\* lines 341-350
header_cursor(tl, embed_chunk_length) ==
    LE32(SIGNATURE) \o LE32(U32(2)) \o LE32(U32(tl)) \o LE32(U32(embed_chunk_length))
    \o LE32(U32(0)) \o LE32(U32(48)) \o LE32(U32(0))

\* lines 353-366
hashes(hdr, tree, payload) ==
    LET tree_digest == Md5(tree)
        chunk_digest == Md5(<< >>)
    IN  tree_digest \o chunk_digest \o Md5(hdr \o tree \o payload \o tree_digest \o chunk_digest)

\* create_vpk, emitting in the order q
create_vpk(vpk_data, q) ==
    LET tl == tree_length(vpk_data)
        records == [i \in 1..Len(q) |-> EmitRecord(vpk_data, q, i, tl)]
        tree == tree_cursor(q, records)
        payload == data_cursor(vpk_data, q)
        hdr == header_cursor(tl, Len(payload))
    IN  [tree_length |-> tl,
         records |-> records,
         tree_cursor |-> tree,
         data_cursor |-> payload,
         file |-> hdr \o tree \o payload \o hashes(hdr, tree, payload)]

NoCv == [tree_length |-> 0, records |-> << >>, tree_cursor |-> << >>,
         data_cursor |-> << >>, file |-> << >>]

CreateVpk ==
    /\ mpc = "create"
    /\ IF TreePanics(out_data) \/ LookupPanics(out_data)
       THEN /\ mpc' = "panic: unwrap"
            /\ UNCHANGED <<cv, out_file>>
       ELSE \E q \in EmitOrders(out_data) :
              LET r == create_vpk(out_data, q) IN
              /\ cv' = r
              /\ out_file' = r.file
              /\ mpc' = "done"
    /\ UNCHANGED <<platform, overflow_checks, data, pos, header, index, files, pc, ext, dir,
                   wpc, chan, out_data>>

------------------------------------------------------------------------------
(* patch_vpk                                                               *)

VmapSuffix == <<46, 118, 109, 97, 112, 95, 99>>                   \* ".vmap_c"
DotaVmap == <<100, 111, 116, 97>> \o VmapSuffix                   \* "dota.vmap_c"

ends_with(s, suf) == Len(s) >= Len(suf) /\ SubSeq(s, Len(s) - Len(suf) + 1, Len(s)) = suf

\* a search that settles for any key when none has the suffix: what C3 rules out
TargetVmapsOrAny(target) ==
    IF \E k \in DOMAIN target : ends_with(k, VmapSuffix)
    THEN {k \in DOMAIN target : ends_with(k, VmapSuffix)}
    ELSE DOMAIN target \cup {<< >>}

\* the keys the search loop of lines 387-392 can stop at: the first key with the
\* suffix in the map's iteration order, the empty string if no key has it
TargetVmaps(target) ==
    IF \E k \in DOMAIN target : ends_with(k, VmapSuffix)
    THEN {k \in DOMAIN target : ends_with(k, VmapSuffix)}
    ELSE {<< >>}

\* HashMap::remove
Remove(m, k) == [p \in DOMAIN m \ {k} |-> m[p]]

\* lines 393-401: the target with target_vmap renamed
Renamed(target, target_vmap) ==
    Insert(Remove(target, target_vmap), with_file_name(target_vmap, DotaVmap), target[target_vmap])

\* lines 404-408: the base entries whose path the target lacks, added
Filled(base, target) ==
    [p \in DOMAIN base \cup DOMAIN target |-> IF p \in DOMAIN target THEN target[p] ELSE base[p]]

\* the unwrap of line 393 fails
patch_panics(target, target_vmap) == target_vmap \notin DOMAIN target

patch_vpk(base, target, target_vmap) == Filled(base, Renamed(target, target_vmap))

PatchVpk ==
    /\ mpc = "patch"
    /\ \E tv \in TargetVmaps(files["target"]) :
         IF patch_panics(files["target"], tv)
         THEN mpc' = "panic: unwrap" /\ UNCHANGED out_data
         ELSE /\ out_data' = patch_vpk(files["base"], files["target"], tv)
              /\ mpc' = "create"
    /\ UNCHANGED <<platform, overflow_checks, data, pos, header, index, files, pc, ext, dir,
                   wpc, chan, cv, out_file>>

------------------------------------------------------------------------------
(* The archives the Reader is run on: a tree of one or two index records,  *)
(* under a header whose version and tree_length vary, cut off at any of    *)
(* the first MaxCut bytes of its tree or not at all.                       *)

MaxCut == 27

ChX == <<120>>
ChY == <<121>>
ChA == <<97>>
ChB == <<98>>
ChD == <<100>>
ChSpace == <<Space>>

U32Max == [hi |-> W16 - 1, lo |-> W16 - 1]

MetaKinds == {"rel0", "rel1", "badsuffix", "external", "preload", "offwrap", "lenwrap"}
MetaKinds2 == {"rel1", "badsuffix"}

\* the fields of an index record of each kind
MetaOf(k) ==
    CASE k = "rel0"      -> [plen |-> 0, aidx |-> 32767, off |-> U32(0), flen |-> U32(1), suffix |-> 65535]
      [] k = "rel1"      -> [plen |-> 0, aidx |-> 32767, off |-> U32(1), flen |-> U32(2), suffix |-> 65535]
      [] k = "badsuffix" -> [plen |-> 0, aidx |-> 32767, off |-> U32(0), flen |-> U32(1), suffix |-> 4660]
      [] k = "external"  -> [plen |-> 0, aidx |-> 0, off |-> U32(1), flen |-> U32(3), suffix |-> 65535]
      [] k = "preload"   -> [plen |-> 1, aidx |-> 32767, off |-> U32(0), flen |-> U32(1), suffix |-> 65535]
      [] k = "offwrap"   -> [plen |-> 0, aidx |-> 32767, off |-> U32Max, flen |-> U32(1), suffix |-> 65535]
      [] k = "lenwrap"   -> [plen |-> 1, aidx |-> 32767, off |-> U32(0), flen |-> U32Max, suffix |-> 65535]

MetaBytes(m) ==
    LE32(U32(0)) \o LE16(m.plen) \o LE16(m.aidx) \o LE32(m.off) \o LE32(m.flen) \o LE16(m.suffix)

\* a base name, its 18 bytes of metadata and its preload
RecBytes(name, k) ==
    Str(name) \o MetaBytes(MetaOf(k)) \o [i \in 1..MetaOf(k).plen |-> 77]

Shapes == {"one", "samedir", "dup", "newdir", "newext"}

TreeBytes(d1, m1, shape, m2) ==
    Str(ChX) \o Str(d1) \o RecBytes(ChA, m1)
    \o (CASE shape = "one"     -> <<>>
          [] shape = "samedir" -> RecBytes(ChB, m2)
          [] shape = "dup"     -> RecBytes(ChA, m2)
          [] shape = "newdir"  -> <<0>> \o Str(IF d1 = ChD THEN ChSpace ELSE ChD) \o RecBytes(ChA, m2)
          [] shape = "newext"  -> <<0, 0>> \o Str(ChY) \o Str(ChD) \o RecBytes(ChA, m2))
    \o <<0, 0, 0>>

PayloadBytes == <<201, 202, 203>>

HeaderBytes(sig, version, tl) ==
    LE32(sig) \o LE32(U32(version)) \o LE32(tl) \o LE32(U32(Len(PayloadBytes)))
    \o LE32(U32(0)) \o LE32(U32(0)) \o LE32(U32(0))

TlKinds == {"actual", "short", "zero", "max"}

TreeLengthField(tree, k) ==
    CASE k = "actual" -> U32(Len(tree))
      [] k = "short"  -> U32(Len(tree) - 1)
      [] k = "zero"   -> U32(0)
      [] k = "max"    -> U32Max

Archive(tree, version, tlk) ==
    HeaderBytes(SIGNATURE, version, TreeLengthField(tree, tlk)) \o tree \o PayloadBytes

Trees ==
    {TreeBytes(d1, m1, "one", "rel1") : d1 \in {ChD, ChSpace}, m1 \in MetaKinds}
    \cup {TreeBytes(t[1], t[2], t[3], t[4]) :
             t \in {ChD, ChSpace} \X MetaKinds \X (Shapes \ {"one"}) \X MetaKinds2}

\* the archive, or its first HEADER_LENGTH + k bytes
Cut(buf, k) == IF k > MaxCut THEN buf ELSE SubSeq(buf, 1, HEADER_LENGTH + k)

ReadInputs ==
    {Cut(Archive(t, ver, tlk), k) : t \in Trees, ver \in {0, 2}, tlk \in TlKinds, k \in 0..(MaxCut + 1)}
    \cup {HeaderBytes(U32(0), 2, U32(Len(t))) \o t \o PayloadBytes : t \in Trees}
    \cup {SubSeq(HeaderBytes(SIGNATURE, 2, U32(0)), 1, k) : k \in {0, HEADER_LENGTH - 1}}

NoVpk == [v \in VPKS |-> NoHeader]
NoMap == [v \in VPKS |-> << >>]

\* what every specification starts from, the archives and the build aside
InitRest ==
    /\ pos = [v \in VPKS |-> 0]
    /\ header = NoVpk
    /\ index = NoMap
    /\ files = NoMap
    /\ ext = NoMap
    /\ dir = NoMap
    /\ chan = NewChannel
    /\ out_data = << >>
    /\ cv = NoCv
    /\ out_file = << >>

InitRead ==
    /\ platform = "windows"
    /\ overflow_checks \in BOOLEAN
    /\ data \in {[v \in VPKS |-> IF v = "base" THEN b ELSE << >>] : b \in ReadInputs}
    /\ pc = [v \in VPKS |-> IF v = "base" THEN "unread" ELSE "none"]
    /\ mpc = "none"
    /\ wpc = "none"
    /\ InitRest

\* VPK::read: read_header, populate_index, load_file_data
read(v) ==
    \/ read_header(v)
    \/ populate_index_ext(v)
    \/ populate_index_dir(v)
    \/ populate_index_name(v)
    \/ load_file_data(v)

NextRead == \E v \in VPKS : read(v)

SpecRead == InitRead /\ [][NextRead]_vars

\* VPK::read runs on one thread, which goes on as long as it has a step to take
SpecReadFair == SpecRead /\ WF_vars(NextRead)

------------------------------------------------------------------------------
(* VPK::new: the archive object over the bytes of a file                   *)

VPK_new(v, bytes) ==
    /\ pc[v] = "none"
    /\ data' = [data EXCEPT ![v] = bytes]
    /\ pos' = [pos EXCEPT ![v] = 0]
    /\ pc' = [pc EXCEPT ![v] = "unread"]
    /\ UNCHANGED <<platform, overflow_checks, header, index, files, ext, dir,
                   chan, out_data, cv, out_file>>

------------------------------------------------------------------------------
(* The Writer on its own: create_vpk of a file set of at most MaxFiles     *)
(* files, and the Reader run on the bytes it returned.                     *)

MaxFiles == 3

Payloads == {<<7>>, <<8, 9>>}

WritePaths ==
    { <<100, 47, 97, 46, 120>>,             \* "d/a.x"
      <<100, 47, 98, 46, 120>>,             \* "d/b.x"
      <<100, 47, 97, 46, 121>>,             \* "d/a.y"
      <<100, 47, 101, 47, 97, 46, 120>>,    \* "d/e/a.x"
      <<97, 46, 120>>,                      \* "a.x", a file at the archive root
      <<32, 47, 97, 46, 120>>,              \* " /a.x"
      <<100, 47, 97>>,                      \* "d/a", no extension
      <<100, 92, 97, 46, 120>> }            \* "d\a.x"

\* the file sets of at most n files over the paths U
FileSets(U, n) ==
    UNION {[S -> Payloads] : S \in {S \in SUBSET U : Cardinality(S) <= n}}

\* No sum of the Writer, or of the Reader on the Writer's output, comes near
\* 2^32: the overflow checks of the build play no part and are left off.
InitWrite ==
    /\ platform \in Platforms
    /\ overflow_checks = FALSE
    /\ data = NoMap
    /\ pc = [v \in VPKS |-> "none"]
    /\ mpc = "create"
    /\ wpc = "none"
    /\ pos = [v \in VPKS |-> 0]
    /\ header = NoVpk
    /\ index = NoMap
    /\ files = NoMap
    /\ ext = NoMap
    /\ dir = NoMap
    /\ chan = NewChannel
    /\ out_data \in FileSets(WritePaths, MaxFiles)
    /\ cv = NoCv
    /\ out_file = << >>

\* the bytes create_vpk returned, opened as an archive
Reopen ==
    /\ mpc = "done"
    /\ VPK_new("base", out_file)
    /\ UNCHANGED <<mpc, wpc>>

NextWrite ==
    \/ CreateVpk
    \/ Reopen
    \/ \E v \in VPKS : read(v)

SpecWrite == InitWrite /\ [][NextWrite]_vars

------------------------------------------------------------------------------
(* The Merger on its own: patch_vpk of two file sets of at most            *)
(* MaxPatchFiles files.  Every path is one the Reader can produce:         *)
(* directory, name, '.', extension.                                        *)

MaxPatchFiles == 2

PatchPaths ==
    { <<109, 47, 102>> \o VmapSuffix,       \* "m/f.vmap_c"
      <<109, 47, 103>> \o VmapSuffix,       \* "m/g.vmap_c"
      <<109, 47>> \o DotaVmap,              \* "m/dota.vmap_c"
      <<102>> \o VmapSuffix,                \* "f.vmap_c"
      <<109, 47, 101, 46, 120>>,            \* "m/e.x"
      <<110, 47, 104, 46, 120>> }           \* "n/h.x"

InitPatch ==
    /\ platform \in Platforms
    /\ overflow_checks = FALSE
    /\ data = NoMap
    /\ pc = [v \in VPKS |-> "read"]
    /\ mpc = "patch"
    /\ wpc = "none"
    /\ pos = [v \in VPKS |-> 0]
    /\ header = NoVpk
    /\ index = NoMap
    /\ files \in [VPKS -> FileSets(PatchPaths, MaxPatchFiles)]
    /\ ext = NoMap
    /\ dir = NoMap
    /\ chan = NewChannel
    /\ out_data = << >>
    /\ cv = NoCv
    /\ out_file = << >>

NextPatch == PatchVpk

SpecPatch == InitPatch /\ [][NextPatch]_vars

------------------------------------------------------------------------------
(* create_terrain: the calling thread reads the base archive while the     *)
(* spawned worker reads the target archive and sends it over the channel.  *)
(* A panic unwinds its thread and drops the end of the channel it owns.    *)

\* line 420: VPK::new(base_path), after the channel is made
new_base ==
    /\ mpc = "start"
    /\ VPK_new("base", data["base"])
    /\ mpc' = "spawn"
    /\ UNCHANGED wpc

\* line 421: thread::spawn
spawn ==
    /\ mpc = "spawn"
    /\ mpc' = "read_base"
    /\ wpc' = "new_target"
    /\ UNCHANGED <<platform, overflow_checks, data, pos, header, index, files, pc, ext, dir,
                   chan, out_data, cv, out_file>>

\* line 422
new_target ==
    /\ wpc = "new_target"
    /\ VPK_new("target", data["target"])
    /\ wpc' = "read_target"
    /\ UNCHANGED mpc

\* line 423: target_vpk.read(), a step of it
read_target ==
    /\ wpc = "read_target"
    /\ read("target")

\* line 426: base_vpk.read(), a step of it
read_base ==
    /\ mpc = "read_base"
    /\ read("base")

\* line 424: tx.send(target_vpk).unwrap(), and the closure ends
send ==
    /\ wpc = "read_target"
    /\ pc["target"] = "read"
    /\ IF chan.rx
       THEN wpc' = "done" /\ chan' = [chan EXCEPT !.sent = TRUE, !.tx = FALSE]
       ELSE wpc' = "panic: unwrap" /\ chan' = [chan EXCEPT !.tx = FALSE]
    /\ UNCHANGED <<platform, overflow_checks, data, pos, header, index, files, pc, ext, dir,
                   mpc, out_data, cv, out_file>>

\* the worker's read panicked: the thread unwinds and tx is dropped unsent
worker_panic ==
    /\ wpc = "read_target"
    /\ pc["target"] \in Panics
    /\ wpc' = pc["target"]
    /\ chan' = [chan EXCEPT !.tx = FALSE]
    /\ UNCHANGED <<platform, overflow_checks, data, pos, header, index, files, pc, ext, dir,
                   mpc, out_data, cv, out_file>>

\* a recv that waits for a value even when the sender is gone: what C8's
\* amendment rules out
recv_waits_for_value(c) == c.sent

\* an unwrap that goes on without a value: what C7 rules out
recv_unwrap_or_default(c) == "patch"

\* Receiver::recv returns: a value was sent, or the sender is gone
recv_returns(c) == c.sent \/ ~c.tx

\* rx.recv().unwrap(): on to patch_vpk with the value, or a panic on RecvError
recv_unwrap(c) == IF c.sent THEN "patch" ELSE "panic: unwrap"

\* line 427
recv ==
    /\ mpc = "read_base"
    /\ pc["base"] = "read"
    /\ recv_returns(chan)
    /\ mpc' = recv_unwrap(chan)
    /\ chan' = IF recv_unwrap(chan) \in Panics THEN [chan EXCEPT !.rx = FALSE] ELSE chan
    /\ UNCHANGED <<platform, overflow_checks, data, pos, header, index, files, pc, ext, dir,
                   wpc, out_data, cv, out_file>>

\* the calling thread's read panicked: create_terrain unwinds and rx is dropped
main_panic ==
    /\ mpc = "read_base"
    /\ pc["base"] \in Panics
    /\ mpc' = pc["base"]
    /\ chan' = [chan EXCEPT !.rx = FALSE]
    /\ UNCHANGED <<platform, overflow_checks, data, pos, header, index, files, pc, ext, dir,
                   wpc, out_data, cv, out_file>>

NextMain == new_base \/ spawn \/ read_base \/ recv \/ main_panic \/ PatchVpk \/ CreateVpk

NextWorker == new_target \/ read_target \/ send \/ worker_panic

NextTerrain == NextMain \/ NextWorker

\* the archives of the two files: well-formed ones, and damaged ones
VmapExt == SubSeq(VmapSuffix, 2, Len(VmapSuffix))

\* "m/dota.vmap_c" and "m/e.x"
BaseBytes ==
    Archive(Str(VmapExt) \o Str(<<109>>) \o RecBytes(<<100, 111, 116, 97>>, "rel0")
            \o <<0, 0>> \o Str(ChX) \o Str(<<109>>) \o RecBytes(<<101>>, "rel1")
            \o <<0, 0, 0>>, 2, "actual")

\* "m/f.vmap_c"
TargetBytes ==
    Archive(Str(VmapExt) \o Str(<<109>>) \o RecBytes(<<102>>, "rel1") \o <<0, 0, 0>>,
            2, "actual")

\* "d/a.x"
NoVmapBytes == Archive(TreeBytes(ChD, "rel0", "one", "rel1"), 2, "actual")

BadSignature == HeaderBytes(U32(0), 2, U32(1)) \o <<0>>
BadTerminator == Archive(TreeBytes(ChD, "badsuffix", "one", "rel1"), 2, "actual")

InitTerrain ==
    /\ platform \in Platforms
    /\ overflow_checks \in BOOLEAN
    /\ \E b \in {BaseBytes, NoVmapBytes, BadSignature, BadTerminator},
          t \in {TargetBytes, NoVmapBytes, BadSignature, BadTerminator,
                 Cut(TargetBytes, MaxCut - 1)} :
          data = [v \in VPKS |-> IF v = "base" THEN b ELSE t]
    /\ pc = [v \in VPKS |-> "none"]
    /\ mpc = "start"
    /\ wpc = "none"
    /\ InitRest

SpecTerrain == InitTerrain /\ [][NextTerrain]_vars

\* the steps of the calling thread up to the return of patch_vpk
MainToPatch == new_base \/ spawn \/ read_base \/ recv \/ main_panic \/ PatchVpk

\* Every thread that can take a step is scheduled in the end.  Of the calling
\* thread this is assumed up to the return of patch_vpk only: nothing is
\* assumed of create_vpk, which admits more behaviours, not fewer.
SpecTerrainFair == SpecTerrain /\ WF_vars(MainToPatch) /\ WF_vars(NextWorker)

------------------------------------------------------------------------------
(* Claims about the Reader, checked under SpecRead                         *)

\* the base name the inner loop of the walk is about to read
NextName(v) == read_until(data[v], pos[v])

\* the inner loop is about to read an index record: a name and its 18 bytes
AtRecord(v) ==
    /\ pc[v] = "index_name"
    /\ from_vec_with_nul_ok(NextName(v))
    /\ to_str(NextName(v)) # << >>
    /\ read_exact_ok(data[v], pos[v] + Len(NextName(v)), 18)

\* the fields of that record, as they stand in the buffer
RecordAt(v) == VPKMetadata(read_exact(data[v], pos[v] + Len(NextName(v)), 18), << >>)

\* the terminator of the record at the cursor, whatever the thread now does
BadTerminatorAtCursor(v) ==
    /\ from_vec_with_nul_ok(NextName(v))
    /\ to_str(NextName(v)) # << >>
    /\ read_exact_ok(data[v], pos[v] + Len(NextName(v)), 18)
    /\ RecordAt(v).suffix # 65535

\* C4: Terminator validation.  Whenever the tree walk reads an index record
\* whose 16-bit terminator is not 0xFFFF the read fails at that record, a
\* failed read stays failed and stores no file, and a file set is only ever
\* returned from an index all of whose records end in 0xFFFF.
C4_TerminatorValidation ==
    /\ [](\A v \in VPKS : pc[v] = "read" =>
            \A p \in DOMAIN index[v] : index[v][p].suffix = 65535)
    /\ [][\A v \in VPKS : (AtRecord(v) /\ RecordAt(v).suffix # 65535) =>
            (pc'[v] \in Panics /\ index'[v] = index[v] /\ files'[v] = files[v])]_vars
    /\ [][\A v \in VPKS : pc[v] \in Panics => (pc'[v] = pc[v] /\ files'[v] = files[v])]_vars

\* a read that failed on the terminator of the record under its cursor
C4_Witness ==
    /\ pc["base"] = "panic: Error while parsing index."
    /\ BadTerminatorAtCursor("base")

\* the cursor lies within header_length + tree_length, in the integers
WithinTree(v) ==
    \/ header[v].tree_length.hi > 0
    \/ pos[v] <= HEADER_LENGTH + header[v].tree_length.lo

\* C5: Tree bound.  When the format version is nonzero, a walk that has
\* advanced the read position past header_length + tree_length never ends in
\* a returned file set.
C5_TreeBound ==
    [][\A v \in VPKS :
         (pc[v] = "load" /\ pc'[v] = "read" /\ header[v].version # U32(0)) => WithinTree(v)]_vars

\* a + b in the integers, NoU32 when it is no u32
NoU32 == [hi |-> -1, lo |-> -1]
ExactSum(a, b) == IF a = NoU32 \/ b = NoU32 \/ Add32(a, b).overflow THEN NoU32 ELSE Add32(a, b).val

\* no bytes: what a buffer too short to hold a payload holds of it
NoBytes == <<-1>>

\* the payload_length + preload_length bytes at the offset of an index entry,
\* NoBytes when the buffer holds no such bytes
PayloadAt(d, m) ==
    LET n == ExactSum(m.file_length, U32(m.preload_length)) IN
    IF n = NoU32 THEN NoBytes
    ELSE IF AsNat(n) = 0 THEN << >>
    ELSE IF AsNat(m.archive_offset) + AsNat(n) > Len(d) THEN NoBytes
    ELSE SubSeq(d, AsNat(m.archive_offset) + 1, AsNat(m.archive_offset) + AsNat(n))

\* the path the walk gives the record at the cursor
PathAtCursor(v) == dir[v] \o to_str(NextName(v)) \o <<Dot>> \o ext[v]

\* C10: Offset correction.  The Reader stores the offset of a record with
\* archive-index 0x7FFF as stored + 28 + tree_length and that of any other
\* record as stored, and the payload it returns for a path is the
\* payload_length + preload_length bytes at the offset so stored (the
\* correction is not applied a second time when the payload is loaded).
C10_OffsetCorrection ==
    /\ [][\A v \in VPKS : (AtRecord(v) /\ pc'[v] = "index_name") =>
            index'[v][PathAtCursor(v)].archive_offset =
                IF RecordAt(v).archive_index = 32767
                THEN ExactSum(RecordAt(v).archive_offset,
                              ExactSum(U32(HEADER_LENGTH), header[v].tree_length))
                ELSE RecordAt(v).archive_offset]_vars
    /\ [](\A v \in VPKS : pc[v] = "read" =>
            \A p \in DOMAIN index[v] : files[v][p] = PayloadAt(data[v], index[v][p]))

\* the same, of the builds that panic on integer overflow only
C10_WithOverflowChecks ==
    /\ [][\A v \in VPKS : (overflow_checks /\ AtRecord(v) /\ pc'[v] = "index_name") =>
            index'[v][PathAtCursor(v)].archive_offset =
                IF RecordAt(v).archive_index = 32767
                THEN ExactSum(RecordAt(v).archive_offset,
                              ExactSum(U32(HEADER_LENGTH), header[v].tree_length))
                ELSE RecordAt(v).archive_offset]_vars
    /\ [](\A v \in VPKS : (overflow_checks /\ pc[v] = "read") =>
            \A p \in DOMAIN index[v] : files[v][p] = PayloadAt(data[v], index[v][p]))

------------------------------------------------------------------------------
(* Claims about the Writer, checked under SpecWrite                        *)

\* a non-empty path with exactly one extension segment: one '.', in its last
\* component, with a name before it and an extension after it
OneExtension(k) ==
    /\ k # << >>
    /\ Cardinality({i \in 1..Len(k) : k[i] = Dot}) = 1
    /\ \E i \in 2..(Len(k) - 1) :
         /\ k[i] = Dot
         /\ k[i - 1] # Slash
         /\ \A j \in i..Len(k) : k[j] # Slash

\* C1: Round-trip.  For every file set whose paths are non-empty and have
\* exactly one extension segment, files at the archive root included,
\* create_vpk succeeds, and VPK::read of its output succeeds and yields the
\* same (path, payload) pairs.
C1_RoundTrip ==
    (\A k \in DOMAIN out_data : OneExtension(k)) =>
        /\ mpc \notin Panics
        /\ pc["base"] \notin Panics
        /\ pc["base"] = "read" => files["base"] = out_data

\* the same, of the file sets whose paths all lie in a directory written with
\* '/' that is not the single space: the paths the round trip does preserve
InDirectory(k) ==
    /\ OneExtension(k)
    /\ \E i \in 2..Len(k) : k[i] = Slash
    /\ \A i \in 1..Len(k) : k[i] # Backslash
    /\ SubSeq(k, 1, 2) # <<Space, Slash>>

C1_InDirectories ==
    (\A k \in DOMAIN out_data : InDirectory(k)) =>
        /\ mpc \notin Panics
        /\ pc["base"] \notin Panics
        /\ pc["base"] = "read" => files["base"] = out_data

\* the tree length by the formula of the claim: one byte, and len + 2 for
\* each extension, len + 2 for each directory listed under an extension and
\* len + 19 for each file
AnalyticTreeLength(F) ==
    LET exts == {extension(k) : k \in DOMAIN F}
        dirs == {<<extension(k), parent(k)>> : k \in DOMAIN F}
    IN  1 + SumOver(exts, [e \in exts |-> Len(e) + 2])
          + SumOver(dirs, [d \in dirs |-> Len(d[2]) + 2])
          + SumOver(DOMAIN F, [k \in DOMAIN F |-> Len(file_stem(k)) + 19])

\* the header and the layout of the file create_vpk returned for the set F
HeaderAndLayout(file, F, c) ==
    /\ SubSeq(file, 1, 4) = <<52, 18, 170, 85>>
    /\ U32At(file, 9) = U32(AnalyticTreeLength(F))
    /\ U32At(file, 9) = U32(Len(c.tree_cursor))
    /\ SubSeq(file, HEADER_LENGTH + 1, HEADER_LENGTH + Len(c.tree_cursor)) = c.tree_cursor
    /\ SubSeq(file, HEADER_LENGTH + Len(c.tree_cursor) + 1,
              HEADER_LENGTH + Len(c.tree_cursor) + Len(c.data_cursor)) = c.data_cursor
    /\ Len(file) = HEADER_LENGTH + Len(c.tree_cursor) + Len(c.data_cursor) + 48

\* C6: Header invariant.  Whenever create_vpk returns, its output starts with
\* the signature 0x55AA1234, the tree_length field of its header is the
\* analytic tree length, which is the number of bytes emitted for the tree,
\* and the payload section begins at byte 28 + tree_length.
C6_HeaderInvariant ==
    [][(mpc = "create" /\ mpc' = "done") => HeaderAndLayout(out_file', out_data', cv')]_vars

\* an archive written of three files, of two extensions and two directories
C6_Witness ==
    /\ mpc = "done"
    /\ Cardinality(DOMAIN out_data) = 3
    /\ Cardinality({extension(k) : k \in DOMAIN out_data}) = 2
    /\ Cardinality({parent(k) : k \in DOMAIN out_data}) = 2
    /\ U32At(out_file, 9) = U32(AnalyticTreeLength(out_data))

\* the records written carry preload length 0, archive-index 0x7FFF and
\* terminator 0xFFFF, and each offset after the first is the one before it
\* plus the payload length before it
RunningOffsets(records) ==
    /\ \A i \in DOMAIN records :
         /\ records[i].preload_length = 0
         /\ records[i].archive_index = 32767
         /\ records[i].suffix = 65535
    /\ \A i \in DOMAIN records : i > 1 =>
         records[i].archive_offset = records[i - 1].archive_offset + records[i - 1].file_length

\* C9, as stated: Writer offsets.  The offset field of the first emitted
\* file is tree_length and the offsets run on from there.
C9_OffsetsFromTreeLength ==
    (mpc = "done" /\ cv.records # << >>) =>
        /\ cv.records[1].archive_offset = cv.tree_length
        /\ RunningOffsets(cv.records)

\* C9, amended: Writer offsets.  The offset field of the first emitted file
\* is 0, the start of the payload section, and the field of every later file
\* is the previous field plus the previous payload length; each record
\* carries preload length 0, archive-index 0x7FFF and terminator 0xFFFF, and
\* the offsets end where the payload section ends.
C9_OffsetsFromZero ==
    (mpc = "done" /\ cv.records # << >>) =>
        /\ cv.records[1].archive_offset = 0
        /\ RunningOffsets(cv.records)
        /\ cv.records[Len(cv.records)].archive_offset + cv.records[Len(cv.records)].file_length
             = Len(cv.data_cursor)

\* an archive written of two files or more, the second behind a payload
C9_Witness ==
    /\ mpc = "done"
    /\ Len(cv.records) >= 2
    /\ cv.records[1].archive_offset = 0
    /\ cv.records[2].archive_offset > 0

------------------------------------------------------------------------------
(* Claims about the Merger, checked under SpecPatch                        *)

HasVmap(target) == \E k \in DOMAIN target : ends_with(k, VmapSuffix)

\* the index of the last '/' of a path, 0 if it has none
LastSlash(s) == Max({0} \cup {i \in 1..Len(s) : s[i] = Slash})

\* the path of dota.vmap_c in the directory of the path k
InSameDirectory(k) == SubSeq(k, 1, LastSlash(k)) \o DotaVmap

\* T': the target with its entry k renamed to dota.vmap_c in the same directory
RenamedInPlace(target, k) == Insert(Remove(target, k), InSameDirectory(k), target[k])

\* C2: Merge rule.  For every base set B and every target set T with a
\* .vmap_c entry, patch_vpk returns a set whose keys are those of B and of
\* T', T after the renaming of that entry to dota.vmap_c in the same
\* directory, where every path of T' has T''s payload and every other path
\* has B's.
C2_MergeRule ==
    HasVmap(files["target"]) =>
        /\ mpc \notin Panics
        /\ mpc = "create" =>
             \E k \in {p \in DOMAIN files["target"] : ends_with(p, VmapSuffix)} :
                LET T1 == RenamedInPlace(files["target"], k) IN
                /\ DOMAIN out_data = DOMAIN files["base"] \cup DOMAIN T1
                /\ \A p \in DOMAIN T1 : out_data[p] = T1[p]
                /\ \A p \in DOMAIN files["base"] \ DOMAIN T1 : out_data[p] = files["base"][p]

\* the same, where the path separator of the platform is '/'
C2_OnUnix == platform = "unix" => C2_MergeRule

\* C3: A target set without a .vmap_c entry.  For every target set none of
\* whose paths ends in .vmap_c, patch_vpk fails: it returns no merged set.
C3_NoMapFile ==
    ~HasVmap(files["target"]) => (mpc \in {"patch", "panic: unwrap"} /\ out_data = << >>)

\* patch_vpk has failed on a target that holds files, none of them a map
C3_Witness ==
    /\ ~HasVmap(files["target"])
    /\ DOMAIN files["target"] # {}
    /\ DOMAIN files["base"] # {}
    /\ mpc = "panic: unwrap"

------------------------------------------------------------------------------
(* Claims about create_terrain, checked under SpecTerrain and, for what    *)
(* the threads do in the end, under SpecTerrainFair                        *)

\* C7: Fail-fast join.  In every interleaving of the two parses, once either
\* parse has failed patch_vpk and create_vpk are never run and no output
\* buffer is returned.
C7_FailFast ==
    (pc["base"] \in Panics \/ pc["target"] \in Panics) =>
        /\ mpc \notin {"patch", "create", "done"}
        /\ out_data = << >>
        /\ out_file = << >>

\* the base was parsed, the worker's parse failed, and create_terrain failed
C7_Witness ==
    /\ pc["base"] = "read"
    /\ files["base"] # << >>
    /\ pc["target"] \in Panics
    /\ mpc \in Panics

\* the calling thread is at the join: its own parse is done
AtJoin == mpc = "read_base" /\ pc["base"] = "read"

\* C8, as stated: a worker that fails never sends, and the calling thread
\* then stays at the join: it never proceeds and never terminates.
C8_BlocksForever == [][(wpc \in Panics /\ AtJoin) => mpc' = mpc]_vars

\* C8, amended: a worker whose parse fails never sends; it drops its end of
\* the channel, recv returns an error at the join, and the calling thread
\* fails there.  It neither blocks nor proceeds to patch_vpk.
C8_JoinFails ==
    /\ [](wpc \in Panics => mpc \notin {"patch", "create", "done"})
    /\ [][(wpc \in Panics /\ AtJoin) => mpc' \in {mpc, "panic: unwrap"}]_vars
    /\ (wpc \in Panics) ~> (mpc \in Panics)

\* the calling thread failed at the join, after the worker's parse had failed
C8_Witness ==
    /\ wpc \in Panics
    /\ pc["base"] = "read"
    /\ mpc = "panic: unwrap"
    /\ ~chan.sent

------------------------------------------------------------------------------
(* Claims about the end of the tree walk, checked under SpecRead           *)

\* the walk of populate_index is under way
InWalk(v) == pc[v] \in {"index_ext", "index_dir", "index_name"}

\* the string at the cursor is cut off by the end of the buffer: no NUL follows
CutOffAtCursor(v) == InWalk(v) /\ ~from_vec_with_nul_ok(NextName(v))

\* the outer loop is at the outermost terminator, the empty extension string
AtOutermostTerminator(v) == pc[v] = "index_ext" /\ NextName(v) = <<0>>

\* C11: Truncated tree.  The walk ends, and the Reader goes on to return a
\* file set, only at the outermost empty-string terminator; a walk whose
\* next string is cut off by the end of the buffer ends in a failed read.
C11_TruncatedTree ==
    /\ [][\A v \in VPKS : (InWalk(v) /\ pc'[v] = "load") => AtOutermostTerminator(v)]_vars
    /\ [][\A v \in VPKS : (CutOffAtCursor(v) /\ pc'[v] # pc[v]) => pc'[v] \in Panics]_vars

------------------------------------------------------------------------------
(* Claims about the choice of the map entry, checked under SpecPatch       *)

\* the merged sets patch_vpk can return for a base and a target: one for each
\* key the search loop can stop at
Outcomes(base, target) ==
    {patch_vpk(base, target, tv) :
        tv \in {k \in TargetVmaps(target) : ~patch_panics(target, k)}}

\* C12: Merge determinism.  The merged set patch_vpk returns is a function of
\* the base and the target alone: whatever the iteration order of the map,
\* every execution on the same two sets returns the set this one returned,
\* also for a target with several .vmap_c paths or with a dota.vmap_c of its
\* own.
C12_MergeDeterminism ==
    mpc = "create" => \A o \in Outcomes(files["base"], files["target"]) : o = out_data

\* the same, of the targets that hold exactly one .vmap_c path
C12_SingleMap ==
    (mpc = "create"
       /\ Cardinality({k \in DOMAIN files["target"] : ends_with(k, VmapSuffix)}) = 1)
      => Outcomes(files["base"], files["target"]) = {out_data}

------------------------------------------------------------------------------
(* Claims about the termination of the walk, checked under SpecReadFair    *)

\* C13: Walk termination.  On every buffer with a valid signature the loops
\* of populate_index end: the cursor never passes the end of the buffer,
\* every step of a loop moves the cursor forward by at least one byte or
\* leaves the loop (at a terminator, at a fatal error or at the end of the
\* buffer), and the walk is left in the end.
C13_WalkTermination ==
    /\ [](\A v \in VPKS : InWalk(v) => pos[v] <= Len(data[v]))
    /\ [][\A v \in VPKS : InWalk(v) => (pos'[v] > pos[v] \/ pc'[v] # pc[v])]_vars
    /\ \A v \in VPKS : InWalk(v) ~> ~InWalk(v)

\* a walk that parsed a record and then ended at the end of a cut-off buffer
C13_Witness ==
    /\ pc["base"] = "load"
    /\ DOMAIN index["base"] # {}
    /\ pos["base"] = Len(data["base"])
    /\ data["base"][pos["base"]] # 0

==============================================================================
